---------------------------- MODULE Spec2Model ----------------------------
(***************************************************************************)
(* A model of the CellEngine export pipeline:                              *)
(*   - S3FilesLoader (src/s3.py), the object-store gateway;                *)
(*   - get_statistics (src/client_ext.py), the bulk-statistics request;    *)
(*   - _download_experiment_files (src/main.py), the export of one         *)
(*     experiment.                                                         *)
(* Three specifications share the variables: Spec (the gateway),           *)
(* SpecStats (get_statistics) and SpecExport (the export).                 *)
(***************************************************************************)
EXTENDS Integers, Sequences, FiniteSets, TLC

VARIABLES
    s3,        \* the object store: bucket -> (key -> content), a partial map
    queue,     \* S3FilesLoader.__future_queue: the pending transfers
    dry_run,   \* S3FilesLoader.dry_run
    call       \* the last call made on the gateway: what ran and how it ended

VARIABLES
    stat_in,   \* the arguments of a get_statistics call
    stat_out,  \* how the call ended: [err, shape], err "pending" before it ends
    posted     \* the bodies client._post was called with, in order

VARIABLES
    files,     \* exp.fcs_files: the names of the experiment's raw-data files
    store0,    \* the own bucket as it was before the first run
    local,     \* the paths that exist on the local filesystem
    pc,        \* where _download_experiment_files stands
    idx,       \* the number of the raw-data file the loop is at
    f_path,    \* what the last _download_* call returned (None: no file written)
    run,       \* how many runs of the export have started
    prev_done, \* whether the run before this one ran to its end
    log        \* this run's requests to the API, local writes and uploads, in order

gvars == <<s3, queue, dry_run, call>>

svars == <<stat_in, stat_out, posted>>

evars == <<files, store0, local, pc, idx, f_path, run, prev_done, log>>

\* what the gateway's operations leave alone
others == <<svars, evars>>

vars == <<s3, queue, dry_run, call, stat_in, stat_out, posted,
          files, store0, local, pc, idx, f_path, run, prev_done, log>>

(***************************************************************************)
(* Bounds of the model.                                                    *)
(***************************************************************************)
\* at most this many objects in the store (queued uploads included)
MaxObjs == 2

\* at most this many pending transfers in the queue
MaxQueue == 2

(***************************************************************************)
(* Keys are strings, modelled as sequences of characters, so that "starts  *)
(* with" and prefix replacement are what they are on strings.              *)
(***************************************************************************)
Chars == {"/", "a"}

\* byte order of the characters ("/" is 0x2F, "a" is 0x61)
CharRank(c) == IF c = "/" THEN 1 ELSE 2

\* the keys an object may have (S3 keys are not empty)
Keys == {<<"/">>, <<"/", "/">>, <<"a">>, <<"a", "/">>}

\* the key arguments of the prefix calls (the empty prefix included)
Prefixes == {<< >>} \cup Keys

\* the key arguments of the directory calls
DirKeys == {<< >>, <<"/">>, <<"a">>}

\* what an object holds; one value: the model tells an object from its absence
Contents == {"x"}

\* self.bucket_name and any other bucket (to_bucket)
OwnBucket == "own"

OtherBucket == "other"

Buckets == {OwnBucket, OtherBucket}

\* str.startswith: what Prefix= of the listing calls selects
IsPrefix(p, k) == Len(p) <= Len(k) /\ SubSeq(k, 1, Len(p)) = p

\* lexicographic byte order of two keys, the order S3 lists them in
RECURSIVE KeyLess(_, _)
KeyLess(k1, k2) ==
    IF k1 = << >> THEN k2 # << >>
    ELSE IF k2 = << >> THEN FALSE
    ELSE IF Head(k1) = Head(k2) THEN KeyLess(Tail(k1), Tail(k2))
    ELSE CharRank(Head(k1)) < CharRank(Head(k2))

RECURSIVE SortKeys(_)
SortKeys(S) ==
    IF S = {} THEN << >>
    ELSE LET m == CHOOSE k \in S : \A o \in S \ {k} : KeyLess(k, o)
         IN  <<m>> \o SortKeys(S \ {m})

EmptyBucket == [k \in {} |-> "x"]

\* put_object / a completed upload or copy: the key now holds the content
PutObject(m, k, c) == [x \in (DOMAIN m) \cup {k} |-> IF x = k THEN c ELSE m[x]]

\* s3_client.delete_object: idempotent, an absent key stays absent
DeleteObject(m, k) == [x \in (DOMAIN m) \ {k} |-> m[x]]

\* bucket.objects.filter(Prefix=p) / list_objects_v2(Prefix=p): the matching keys
MatchingKeys(m, p) == {k \in DOMAIN m : IsPrefix(p, k)}

ListObjects(m, p) == SortKeys(MatchingKeys(m, p))

\* obj.key.replace(from_dir_key, to_dir_key, 1): from_dir_key is a prefix of
\* obj.key, so its first occurrence is the one at the start of the key
ReplacePrefix(k, from, to) == to \o SubSeq(k, Len(from) + 1, Len(k))


(***************************************************************************)
(* The pending-transfer queue.  A transfer is [kind, key]; whether it      *)
(* succeeds, and what an upload writes, is decided when the transfer runs, *)
(* which the model places at the future.result() that waits for it.  A     *)
(* transfer left in the queue has not been waited for.                     *)
(***************************************************************************)
Transfer(kind, key) == [kind |-> kind, key |-> key]

QueuedUploadKeys(q) == {q[i].key : i \in {j \in 1..Len(q) : q[j].kind = "upload"}}

\* the bound on the store: the objects of the buckets, queued uploads included
InBounds(s, q) ==
    Cardinality((DOMAIN s[OwnBucket]) \cup QueuedUploadKeys(q))
        + Cardinality(DOMAIN s[OtherBucket]) <= MaxObjs

NoRet == "None"

Returned(op, ret) == [op |-> op, err |-> "none", ret |-> ret]

Raised(op, err) == [op |-> op, err |-> err, ret |-> NoRet]

(***************************************************************************)
(* result_all_futures: pop the last transfer, wait for it, count it; an    *)
(* exception of future.result() leaves the loop at once.  failAt is the    *)
(* number of the pop whose result() raises (0: none does), cs the content  *)
(* each upload writes.  A download of a key that is not in the bucket      *)
(* cannot succeed (valid is FALSE for such a choice).                      *)
(***************************************************************************)
RECURSIVE ResolveFrom(_, _, _, _, _)
ResolveFrom(q, m, n_futures, failAt, cs) ==
    IF Len(q) = 0
    THEN [queue |-> q, own |-> m, n |-> n_futures, raised |-> FALSE, valid |-> TRUE]
    ELSE LET future == q[Len(q)]
             rest   == SubSeq(q, 1, Len(q) - 1)
         IN  IF n_futures + 1 = failAt
             THEN [queue |-> rest, own |-> m, n |-> n_futures, raised |-> TRUE,
                   valid |-> TRUE]
             ELSE IF future.kind = "download" /\ future.key \notin DOMAIN m
             THEN [queue |-> rest, own |-> m, n |-> n_futures, raised |-> FALSE,
                   valid |-> FALSE]
             ELSE ResolveFrom(rest,
                              IF future.kind = "upload"
                              THEN PutObject(m, future.key, cs[Len(q)])
                              ELSE m,
                              n_futures + 1, failAt, cs)

ResultAllFutures(q, m, failAt, cs) == ResolveFrom(q, m, 0, failAt, cs)

\* the state after a drain made by operation op
Drained(op, q, failAt, cs) ==
    LET r == ResultAllFutures(q, s3[OwnBucket], failAt, cs)
    IN  /\ r.valid
        /\ queue' = r.queue
        /\ s3' = [s3 EXCEPT ![OwnBucket] = r.own]
        /\ call' = IF r.raised THEN Raised(op, "TransferFailure")
                   ELSE Returned(op, IF op = "result_all_futures" THEN r.n ELSE NoRet)

result_all_futures ==
    /\ \E failAt \in 0..Len(queue), cs \in [1..Len(queue) -> Contents] :
           Drained("result_all_futures", queue, failAt, cs)
    /\ UNCHANGED <<dry_run, others>>

(***************************************************************************)
(* upload_file, add_to_upload_future, upload_dir                           *)
(***************************************************************************)
UploadFile(s, dry, to_f_key, ok, c) ==
    IF ~dry
    THEN IF ok
         THEN [s3 |-> [s EXCEPT ![OwnBucket] = PutObject(@, to_f_key, c)], err |-> "none"]
         ELSE [s3 |-> s, err |-> "TransferFailure"]
    ELSE [s3 |-> s, err |-> "none"]

upload_file(to_f_key) ==
    /\ \E ok \in BOOLEAN, c \in Contents :
          LET r == UploadFile(s3, dry_run, to_f_key, ok, c)
          IN  /\ s3' = r.s3
              /\ call' = IF r.err = "none" THEN Returned("upload_file", NoRet)
                         ELSE Raised("upload_file", r.err)
    /\ InBounds(s3', queue)
    /\ UNCHANGED <<queue, dry_run, others>>

\* the queue after add_to_upload_future
AddToUploadFuture(q, dry, to_f_key) ==
    IF ~dry THEN Append(q, Transfer("upload", to_f_key)) ELSE q

add_to_upload_future(to_f_key) ==
    /\ queue' = AddToUploadFuture(queue, dry_run, to_f_key)
    /\ Len(queue') <= MaxQueue
    /\ InBounds(s3, queue')
    /\ call' = Returned("add_to_upload_future", NoRet)
    /\ UNCHANGED <<s3, dry_run, others>>

RECURSIVE AddAllUploads(_, _, _)
AddAllUploads(q, dry, keys) ==
    IF keys = << >> THEN q
    ELSE AddAllUploads(AddToUploadFuture(q, dry, Head(keys)), dry, Tail(keys))

\* the keys upload_dir gives the files os.walk finds: to_dir_key + relative path,
\* the relative paths distinct and not empty
WalkedKeys(to_dir_key) ==
    {ks \in {<< >>} \cup {<<k>> : k \in Keys} \cup {<<k1, k2>> : k1 \in Keys, k2 \in Keys} :
        /\ \A i \in 1..Len(ks) : IsPrefix(to_dir_key, ks[i]) /\ ks[i] # to_dir_key
        /\ \A i \in 1..Len(ks), j \in 1..Len(ks) : i # j => ks[i] # ks[j]}

upload_dir(to_dir_key) ==
    /\ \E ks \in WalkedKeys(to_dir_key) :
          LET q == AddAllUploads(queue, dry_run, ks)
          IN  /\ Len(q) <= MaxQueue
              /\ InBounds(s3, q)
              /\ \E failAt \in 0..Len(q), cs \in [1..Len(q) -> Contents] :
                     Drained("upload_dir", q, failAt, cs)
    /\ UNCHANGED <<dry_run, others>>

(***************************************************************************)
(* add_to_download_future, download_dir (download_file changes nothing of  *)
(* the gateway and is left out)                                            *)
(***************************************************************************)
AddToDownloadFuture(q, from_f_key) == Append(q, Transfer("download", from_f_key))

add_to_download_future(from_f_key) ==
    /\ queue' = AddToDownloadFuture(queue, from_f_key)
    /\ Len(queue') <= MaxQueue
    /\ call' = Returned("add_to_download_future", NoRet)
    /\ UNCHANGED <<s3, dry_run, others>>

RECURSIVE AddAllDownloads(_, _)
AddAllDownloads(q, keys) ==
    IF keys = << >> THEN q
    ELSE AddAllDownloads(AddToDownloadFuture(q, Head(keys)), Tail(keys))

download_dir(from_dir_key) ==
    /\ LET objs == ListObjects(s3[OwnBucket], from_dir_key)
           q    == AddAllDownloads(queue, objs)
       IN  /\ Len(q) <= MaxQueue
           /\ \E failAt \in 0..Len(q), cs \in [1..Len(q) -> Contents] :
                  Drained("download_dir", q, failAt, cs)
    /\ UNCHANGED <<dry_run, others>>

(***************************************************************************)
(* copy_object, and the three single-object operations built on it.  Each  *)
(* returns [s3, err].  The outcome of the store's calls is an input:       *)
(*   "ok200"        copy_object copied and answered 200                    *)
(*   "non200"       copy_object answered another status and copied nothing *)
(*   "copy_raises"  copy_object raised                                     *)
(*   "delete_raises" the copy answered 200 and delete_object raised        *)
(***************************************************************************)
CopyObject(s, from_f_key, to_bucket, to_f_key) ==
    [s EXCEPT ![to_bucket] = PutObject(s[to_bucket], to_f_key, s[OwnBucket][from_f_key])]

Result(s, err) == [s3 |-> s, err |-> err]

\* the outcomes the store can give for a copy of from_f_key
CopyOutcomes(s, from_f_key) ==
    IF from_f_key \in DOMAIN s[OwnBucket]
    THEN {"ok200", "non200", "copy_raises", "delete_raises"}
    ELSE {"non200", "copy_raises"}

\* a move_file that deletes the source without looking at the copy's status
MoveFile_DeleteUnchecked(s, dry, from_f_key, to_f_key, to_bucket, outcome) ==
    IF <<OwnBucket, from_f_key>> = <<to_bucket, to_f_key>>
    THEN Result(s, "none")
    ELSE IF dry
    THEN Result(s, "none")
    ELSE IF outcome = "copy_raises"
    THEN Result(s, "StoreError")
    ELSE IF outcome \in {"ok200", "delete_raises"}
    THEN LET copied == CopyObject(s, from_f_key, to_bucket, to_f_key)
         IN  IF outcome = "delete_raises"
             THEN Result(copied, "StoreError")
             ELSE Result([copied EXCEPT ![OwnBucket] = DeleteObject(@, from_f_key)],
                         "none")
    ELSE Result([s EXCEPT ![OwnBucket] = DeleteObject(@, from_f_key)], "MoveFailed")

\* a move_file without the test that source and destination are the same path
MoveFile_NoSamePathGuard(s, dry, from_f_key, to_f_key, to_bucket, outcome) ==
    IF dry
    THEN Result(s, "none")
    ELSE IF outcome = "copy_raises"
    THEN Result(s, "StoreError")
    ELSE IF outcome \in {"ok200", "delete_raises"}
    THEN LET copied == CopyObject(s, from_f_key, to_bucket, to_f_key)
         IN  IF outcome = "delete_raises"
             THEN Result(copied, "StoreError")
             ELSE Result([copied EXCEPT ![OwnBucket] = DeleteObject(@, from_f_key)],
                         "none")
    ELSE Result(s, "MoveFailed")

MoveFile(s, dry, from_f_key, to_f_key, to_bucket, outcome) ==
    IF <<OwnBucket, from_f_key>> = <<to_bucket, to_f_key>>
    THEN Result(s, "none")
    ELSE IF dry
    THEN Result(s, "none")
    ELSE IF outcome = "copy_raises"
    THEN Result(s, "StoreError")
    ELSE IF outcome \in {"ok200", "delete_raises"}
    THEN LET copied == CopyObject(s, from_f_key, to_bucket, to_f_key)
         IN  IF outcome = "delete_raises"
             THEN Result(copied, "StoreError")
             ELSE Result([copied EXCEPT ![OwnBucket] = DeleteObject(@, from_f_key)],
                         "none")
    ELSE Result(s, "MoveFailed")

CopyFile(s, dry, from_f_key, to_f_key, to_bucket, outcome) ==
    IF dry
    THEN Result(s, "none")
    ELSE IF outcome = "copy_raises"
    THEN Result(s, "StoreError")
    ELSE IF outcome \in {"ok200", "delete_raises"}
    THEN Result(CopyObject(s, from_f_key, to_bucket, to_f_key), "none")
    ELSE Result(s, "none")

\* a delete_file that does not look at dry_run
DeleteFile_NoDryRun(s, dry, f_key, outcome) ==
    IF outcome = "delete_raises"
    THEN Result(s, "StoreError")
    ELSE Result([s EXCEPT ![OwnBucket] = DeleteObject(@, f_key)], "none")

DeleteFile(s, dry, f_key, outcome) ==
    IF dry
    THEN Result(s, "none")
    ELSE IF outcome = "delete_raises"
    THEN Result(s, "StoreError")
    ELSE Result([s EXCEPT ![OwnBucket] = DeleteObject(@, f_key)], "none")

\* the state after operation op ended with result r
Ended(op, r) ==
    /\ s3' = r.s3
    /\ InBounds(s3', queue)
    /\ call' = IF r.err = "none" THEN Returned(op, NoRet) ELSE Raised(op, r.err)
    /\ UNCHANGED <<queue, dry_run, others>>

move_file(from_f_key, to_f_key, to_bucket) ==
    \E outcome \in CopyOutcomes(s3, from_f_key) :
        Ended("move_file", MoveFile(s3, dry_run, from_f_key, to_f_key, to_bucket, outcome))

copy_file(from_f_key, to_f_key, to_bucket) ==
    \E outcome \in CopyOutcomes(s3, from_f_key) \ {"delete_raises"} :
        Ended("copy_file", CopyFile(s3, dry_run, from_f_key, to_f_key, to_bucket, outcome))

delete_file(f_key) ==
    \E outcome \in {"ok200", "delete_raises"} :
        Ended("delete_file", DeleteFile(s3, dry_run, f_key, outcome))

(***************************************************************************)
(* The directory operations: the objects are listed once, then handled one *)
(* by one in the order of the listing.  failAt is the number of the object *)
(* at which the store's call fails with outcome how (0: at none); the      *)
(* objects before it are handled with success.                             *)
(***************************************************************************)
OutcomeAt(i, failAt, how) == IF i = failAt THEN how ELSE "ok200"

RECURSIVE CopyEach(_, _, _, _, _, _, _, _, _)
CopyEach(s, dry, objs, i, from_dir_key, to_dir_key, to_bucket, failAt, how) ==
    IF i > Len(objs) THEN Result(s, "none")
    ELSE LET r == CopyFile(s, dry, objs[i], ReplacePrefix(objs[i], from_dir_key, to_dir_key),
                           to_bucket, OutcomeAt(i, failAt, how))
         IN  IF r.err # "none" THEN r
             ELSE CopyEach(r.s3, dry, objs, i + 1, from_dir_key, to_dir_key, to_bucket,
                           failAt, how)

RECURSIVE MoveEach(_, _, _, _, _, _, _, _, _)
MoveEach(s, dry, objs, i, from_dir_key, to_dir_key, to_bucket, failAt, how) ==
    IF i > Len(objs) THEN Result(s, "none")
    ELSE LET r == MoveFile(s, dry, objs[i], ReplacePrefix(objs[i], from_dir_key, to_dir_key),
                           to_bucket, OutcomeAt(i, failAt, how))
         IN  IF r.err # "none" THEN r
             ELSE MoveEach(r.s3, dry, objs, i + 1, from_dir_key, to_dir_key, to_bucket,
                           failAt, how)

RECURSIVE DeleteEach(_, _, _, _, _)
DeleteEach(s, dry, objs, i, failAt) ==
    IF i > Len(objs) THEN Result(s, "none")
    ELSE LET r == DeleteFile(s, dry, objs[i], OutcomeAt(i, failAt, "delete_raises"))
         IN  IF r.err # "none" THEN r
             ELSE DeleteEach(r.s3, dry, objs, i + 1, failAt)

\* the keys the listed objects get stay within the keys of the model
NewKeysInModel(objs, from_dir_key, to_dir_key) ==
    \A i \in 1..Len(objs) : ReplacePrefix(objs[i], from_dir_key, to_dir_key) \in Keys

CopyDir(s, dry, from_dir_key, to_dir_key, to_bucket, failAt, how) ==
    CopyEach(s, dry, ListObjects(s[OwnBucket], from_dir_key), 1, from_dir_key, to_dir_key,
             to_bucket, failAt, how)

\* max_obj_count when the caller gives none
MoveDirDefaultMax == 100

DeleteDirDefaultMax == 30

\* a move_dir whose cap lets one object too many through
MoveDir_CapOffByOne(s, dry, from_dir_key, to_dir_key, to_bucket, max_obj_count, failAt, how) ==
    LET objs == ListObjects(s[OwnBucket], from_dir_key)
        num_objs == Len(objs)
    IN  IF num_objs > max_obj_count + 1
        THEN Result(s, "SafetyCap")
        ELSE MoveEach(s, dry, objs, 1, from_dir_key, to_dir_key, to_bucket, failAt, how)

MoveDir(s, dry, from_dir_key, to_dir_key, to_bucket, max_obj_count, failAt, how) ==
    LET objs == ListObjects(s[OwnBucket], from_dir_key)
        num_objs == Len(objs)
    IN  IF num_objs > max_obj_count
        THEN Result(s, "SafetyCap")
        ELSE MoveEach(s, dry, objs, 1, from_dir_key, to_dir_key, to_bucket, failAt, how)

RootKey == <<"/">>

DeleteDir(s, dry, dir_key, max_obj_count, failAt) ==
    IF dir_key = RootKey
    THEN Result(s, "RootKey")
    ELSE LET objs == ListObjects(s[OwnBucket], dir_key)
             num_objs == Len(objs)
         IN  IF num_objs > max_obj_count
             THEN Result(s, "SafetyCap")
             ELSE DeleteEach(s, dry, objs, 1, failAt)

\* the values of max_obj_count the model calls with
MaxObjCounts(default) == {1, default}

\* where a directory operation over n objects fails: nowhere, or at object i
Failures(n, hows) == {<<0, "ok200">>} \cup {<<i, how>> : i \in 1..n, how \in hows}

copy_dir(from_dir_key, to_dir_key, to_bucket) ==
    LET objs == ListObjects(s3[OwnBucket], from_dir_key)
    IN  /\ NewKeysInModel(objs, from_dir_key, to_dir_key)
        /\ \E f \in Failures(Len(objs), {"copy_raises"}) :
              Ended("copy_dir",
                    CopyDir(s3, dry_run, from_dir_key, to_dir_key, to_bucket, f[1], f[2]))

move_dir(from_dir_key, to_dir_key, to_bucket, max_obj_count) ==
    LET objs == ListObjects(s3[OwnBucket], from_dir_key)
    IN  /\ NewKeysInModel(objs, from_dir_key, to_dir_key)
        /\ \E f \in Failures(Len(objs), {"non200", "copy_raises", "delete_raises"}) :
              Ended("move_dir",
                    MoveDir(s3, dry_run, from_dir_key, to_dir_key, to_bucket,
                            max_obj_count, f[1], f[2]))

delete_dir(dir_key, max_obj_count) ==
    LET objs == ListObjects(s3[OwnBucket], dir_key)
    IN  \E f \in Failures(Len(objs), {"delete_raises"}) :
           Ended("delete_dir", DeleteDir(s3, dry_run, dir_key, max_obj_count, f[1]))

(***************************************************************************)
(* The read-only operations.                                               *)
(***************************************************************************)
\* a check_exists that looks for an object at the key itself
CheckExists_ExactKey(m, f_key) == f_key \in DOMAIN m

\* list_objects_v2(Prefix=f_key, MaxKeys=1): Contents is there iff a key matches
CheckExists(m, f_key) == MatchingKeys(m, f_key) # {}

check_exists(f_key) ==
    /\ call' = [op |-> "check_exists", err |-> "none",
                ret |-> <<f_key, CheckExists(s3[OwnBucket], f_key)>>]
    /\ UNCHANGED <<s3, queue, dry_run, others>>

list_f_keys(f_key) ==
    /\ call' = [op |-> "list_f_keys", err |-> "none",
                ret |-> <<f_key, ListObjects(s3[OwnBucket], f_key)>>]
    /\ UNCHANGED <<s3, queue, dry_run, others>>

(***************************************************************************)
(* The gateway's specifications.  Spec: the operations on the store.       *)
(* SpecQueue: the operations on the pending-transfer queue.  SpecDryRun:   *)
(* a gateway built with dry_run=True.                                      *)
(***************************************************************************)
\* no get_statistics call is in sight
NoStats ==
    /\ stat_in = [statistics |-> [type |-> "list", items |-> << >>, value |-> ""],
                  q |-> "None", format |-> "json", layout |-> "None"]
    /\ stat_out = [err |-> "pending", shape |-> "None"]
    /\ posted = << >>

\* no export is in sight
NoExport ==
    /\ files = << >>
    /\ store0 = EmptyBucket
    /\ local = {}
    /\ pc = "idle"
    /\ idx = 0
    /\ f_path = << >>
    /\ run = 0
    /\ prev_done = FALSE
    /\ log = << >>

\* the buckets' contents before the first call: at most MaxObjs objects
StartBuckets ==
    {m \in UNION {[D -> Contents] : D \in SUBSET Keys} : Cardinality(DOMAIN m) <= MaxObjs}

\* S3FilesLoader.__init__ over a store that holds some objects already
Init ==
    /\ \E m \in StartBuckets : s3 = [b \in Buckets |-> IF b = OwnBucket THEN m ELSE EmptyBucket]
    /\ queue = << >>
    /\ dry_run \in BOOLEAN
    /\ call = Returned("__init__", NoRet)
    /\ NoStats
    /\ NoExport

NextStore ==
    \/ \E k \in Keys : upload_file(k)
    \/ \E f \in Keys, t \in Keys, b \in Buckets : move_file(f, t, b)
    \/ \E f \in Keys, t \in Keys, b \in Buckets : copy_file(f, t, b)
    \/ \E k \in Keys : delete_file(k)
    \/ \E f \in DirKeys, t \in DirKeys, b \in Buckets : copy_dir(f, t, b)
    \/ \E f \in DirKeys, t \in DirKeys, b \in Buckets,
          c \in MaxObjCounts(MoveDirDefaultMax) : move_dir(f, t, b, c)
    \/ \E p \in DirKeys, c \in MaxObjCounts(DeleteDirDefaultMax) : delete_dir(p, c)
    \/ \E p \in Prefixes : check_exists(p)
    \/ \E p \in Prefixes : list_f_keys(p)

NextUploadQueue ==
    \/ result_all_futures
    \/ \E k \in Keys : add_to_upload_future(k)
    \/ \E p \in DirKeys : upload_dir(p)

NextDownloadQueue ==
    \/ \E k \in Keys : add_to_download_future(k)
    \/ \E p \in DirKeys : download_dir(p)

Spec == Init /\ [][NextStore]_vars

SpecQueue == Init /\ [][NextUploadQueue \/ NextDownloadQueue]_vars

\* S3FilesLoader.__init__ with dry_run=True
InitDryRun ==
    /\ \E m \in StartBuckets : s3 = [b \in Buckets |-> IF b = OwnBucket THEN m ELSE EmptyBucket]
    /\ queue = << >>
    /\ dry_run = TRUE
    /\ call = Returned("__init__", NoRet)
    /\ NoStats
    /\ NoExport

SpecDryRun == InitDryRun /\ [][NextStore \/ NextUploadQueue]_vars

(***************************************************************************)
(* get_statistics (src/client_ext.py).  A Python value is modelled with    *)
(* its type: statistics is a list of names or, the annotation              *)
(* notwithstanding, a bare string; q is None, an int, a float or a str.    *)
(***************************************************************************)
PyList(items) == [type |-> "list", items |-> items, value |-> ""]

PyStr(value) == [type |-> "str", items |-> << >>, value |-> value]

StatisticsArgs ==
    {PyList(<< >>), PyList(<<"eventcount">>), PyList(<<"quantile">>),
     PyList(<<"mean", "quantile">>), PyStr("quantile"), PyStr("mean")}

QArgs == {"None", "int", "float", "str"}

Formats == {"json", "JSON", "TSV (with header)", "csv (without header)", "pandas", "xml"}

LayoutArgs == {"None", "medium"}

\* Python's ==: a str equals a str of the same characters, and never a list
PyStrEq(text, v) == v.type = "str" /\ v.value = text

\* isinstance(q, float)
IsFloat(q) == q = "float"

\* str.lower
Lower(format) ==
    CASE format = "JSON" -> "json"
      [] format = "TSV (with header)" -> "tsv (with header)"
      [] OTHER -> format

\* "sv" in format
ContainsSv(format) == format \in {"tsv (with header)", "csv (without header)"}

\* the precondition as the code tests it
QuantileCheckFails(statistics, q) == PyStrEq("quantile", statistics) /\ ~IsFloat(q)

\* req_params: the fields of params that are not None
ReqParams(in) ==
    [statistics |-> in.statistics,
     q          |-> in.q,
     format     |-> IF in.format = "pandas" THEN "json" ELSE in.format,
     layout     |-> in.layout,
     fields     |-> {"statistics", "channels", "annotations", "compensationId",
                     "format", "percentOf"}
                    \cup (IF in.q # "None" THEN {"q"} ELSE {})
                    \cup (IF in.layout # "None" THEN {"layout"} ELSE {})]

StatResult(err, shape) == [err |-> err, shape |-> shape]

\* get_statistics(in): the bodies posted and how the call ends.  net is what the
\* network call does: "ok", "raises" (client._post raises), "garbled" (the
\* body cannot be decoded)
GetStatistics(in, net) ==
    IF QuantileCheckFails(in.statistics, in.q)
    THEN [posted |-> << >>, out |-> StatResult("ValueError", "None")]
    ELSE LET body == <<ReqParams(in)>>
             format == Lower(in.format)
         IN  IF net = "raises"
             THEN [posted |-> body, out |-> StatResult("APIError", "None")]
             ELSE IF format = "json"
             THEN [posted |-> body,
                   out |-> IF net = "garbled" THEN StatResult("JSONDecodeError", "None")
                           ELSE StatResult("none", "dict")]
             ELSE IF ContainsSv(format)
             THEN [posted |-> body,
                   out |-> IF net = "garbled" THEN StatResult("ValueError", "None")
                           ELSE StatResult("none", "str")]
             ELSE IF format = "pandas"
             THEN [posted |-> body,
                   out |-> IF net = "garbled" THEN StatResult("ValueError", "None")
                           ELSE StatResult("none", "DataFrame")]
             ELSE [posted |-> body, out |-> StatResult("ValueError", "None")]

NetOutcomes == {"ok", "raises", "garbled"}

Pending == StatResult("pending", "None")

get_statistics ==
    /\ stat_out = Pending
    /\ \E net \in NetOutcomes :
          LET r == GetStatistics(stat_in, net)
          IN  /\ posted' = posted \o r.posted
              /\ stat_out' = r.out
    /\ UNCHANGED <<stat_in, gvars, evars>>

InitStats ==
    /\ stat_in \in [statistics : StatisticsArgs, q : QArgs, format : Formats,
                    layout : LayoutArgs]
    /\ stat_out = Pending
    /\ posted = << >>
    /\ s3 = [b \in Buckets |-> EmptyBucket]
    /\ queue = << >>
    /\ dry_run = FALSE
    /\ call = Returned("__init__", NoRet)
    /\ NoExport

SpecStats == InitStats /\ [][get_statistics]_vars

(***************************************************************************)
(* The claims about the gateway.                                           *)
(***************************************************************************)
Own == s3[OwnBucket]

\* C1: whenever upload_dir or download_dir has returned control to its
\* caller, by a normal return or by a propagated transfer failure, the
\* pending-transfer queue is empty.
C1_QueueEmptyAfterDirCall ==
    call.op \in {"upload_dir", "download_dir"} => queue = << >>

\* C2: result_all_futures waits for every queued transfer before it lets a
\* failure through (after a failure no transfer of the queue is left
\* unresolved), and without a failure it returns the number of transfers
\* that were in the queue on entry.
C2_FailureOnlyAfterAllResolved ==
    [][call'.op = "result_all_futures" =>
          IF call'.err # "none" THEN queue' = << >> ELSE call'.ret = Len(queue)]_vars

\* C5: a move_dir or delete_dir call that lists more objects than
\* max_obj_count raises, and the store is exactly as it was before the call.
C5_CapFailsClosed ==
    [][/\ call'.op = "move_dir" =>
             \A f \in DirKeys, c \in MaxObjCounts(MoveDirDefaultMax) :
                Cardinality(MatchingKeys(Own, f)) > c =>
                   \A t \in DirKeys, b \in Buckets :
                      move_dir(f, t, b, c) => (call'.err = "SafetyCap" /\ s3' = s3)
       /\ call'.op = "delete_dir" =>
             \A p \in DirKeys, c \in MaxObjCounts(DeleteDirDefaultMax) :
                Cardinality(MatchingKeys(Own, p)) > c =>
                   (delete_dir(p, c) =>
                       (call'.err \in {"SafetyCap", "RootKey"} /\ s3' = s3))]_vars

\* C5 witness: a directory call was refused over the cap on a store that holds objects
C5_Witness ==
    /\ call.op \in {"move_dir", "delete_dir"}
    /\ call.err = "SafetyCap"
    /\ Cardinality(DOMAIN Own) = MaxObjs
    /\ ~dry_run

\* the keys that designate the store root: the key the code names so, and the
\* prefix under which every object of a bucket is listed
StoreRootKeys == {RootKey, << >>}

\* C6: delete_dir on a key that designates the store root raises and deletes
\* nothing, whatever max_obj_count is (stated for a gateway that is not in
\* dry-run, over a store that holds objects).
C6_RootNeverDeleted ==
    [][(call'.op = "delete_dir" /\ ~dry_run /\ DOMAIN Own # {}) =>
          \A p \in StoreRootKeys, c \in MaxObjCounts(DeleteDirDefaultMax) :
             delete_dir(p, c) => (call'.err # "none" /\ s3' = s3)]_vars

\* C7: move_file on an object that exists: after an error the source is as
\* it was; the source is gone only when the destination holds its content;
\* with distinct source and destination the content is at the source or at
\* the destination; and a move that returns without error (not in dry-run)
\* has copied the content and deleted the source.
C7_MoveNeverLoses ==
    [][call'.op = "move_file" =>
        \A f \in DOMAIN Own, t \in Keys, b \in Buckets :
          move_file(f, t, b) =>
             LET c == Own[f]
                 atSource == f \in DOMAIN s3'[OwnBucket] /\ s3'[OwnBucket][f] = c
                 atDest   == t \in DOMAIN s3'[b] /\ s3'[b][t] = c
                 distinct == <<OwnBucket, f>> # <<b, t>>
             IN  /\ call'.err # "none" => atSource
                 /\ ~atSource => (atDest /\ call'.err = "none")
                 /\ distinct => (atSource \/ atDest)
                 /\ (distinct /\ ~dry_run /\ call'.err = "none") => (atDest /\ ~atSource)]_vars

\* C7 witness: the copy did not report success, move_file raised, the object is there
C7_Witness ==
    /\ call.op = "move_file"
    /\ call.err = "MoveFailed"
    /\ DOMAIN Own # {}

\* C8: with dry_run enabled no operation changes the store or queues an
\* upload, and check_exists and the listing return what the store holds.
C8_DryRunFrame ==
    [][/\ s3' = s3
       /\ QueuedUploadKeys(queue') = {}
       /\ call'.op = "check_exists" =>
             call'.ret[2] = (\E k \in DOMAIN s3'[OwnBucket] : IsPrefix(call'.ret[1], k))
       /\ call'.op = "list_f_keys" =>
             {call'.ret[2][i] : i \in 1..Len(call'.ret[2])}
                 = {k \in DOMAIN s3'[OwnBucket] : IsPrefix(call'.ret[1], k)}]_vars

\* C8 witness: in dry-run a delete_dir returned and the objects are still there
C8_Witness ==
    /\ dry_run
    /\ call.op = "delete_dir"
    /\ call.err = "none"
    /\ Cardinality(DOMAIN Own) = MaxObjs

(***************************************************************************)
(* The claim about get_statistics.                                         *)
(***************************************************************************)
IsNumber(q) == q \in {"int", "float"}

IncludesQuantile(statistics) ==
    /\ statistics.type = "list"
    /\ \E i \in 1..Len(statistics.items) : statistics.items[i] = "quantile"

\* C9: a get_statistics call whose statistics list includes "quantile" and
\* whose q is not a number ends with ValueError, and no body has been posted.
C9_QuantileNeedsNumber ==
    (stat_out # Pending /\ IncludesQuantile(stat_in.statistics) /\ ~IsNumber(stat_in.q))
        => (stat_out.err = "ValueError" /\ posted = << >>)


(***************************************************************************)
(* The export of one experiment: _download_experiment_files of main.py.    *)
(* A path is a sequence of tokens, none of which begins another, so that   *)
(* one path begins another exactly when its tokens do.                     *)
(***************************************************************************)
\* at most this many raw-data files in the experiment
MaxFiles == 2

\* at most this many runs of the export over the experiment
MaxRuns == 2

\* exp.name
ExpName == <<"E">>

\* exp_root = f"data/{exp.name}"
ExpRoot == <<"data/">> \o ExpName

\* fcs_file.name: with the suffix, without it, and a name that begins another
FcsNames == {<<"A", ".fcs">>, <<"A">>, <<"B", ".fcs">>}

\* what a _download_* call returns when it wrote no file
None == << >>

\* str.removesuffix(".fcs")
RemoveSuffixFcs(name) ==
    IF Len(name) > 0 /\ name[Len(name)] = ".fcs"
    THEN SubSeq(name, 1, Len(name) - 1)
    ELSE name

FcsFilePath(exp_root, name) == exp_root \o <<"/">> \o name

GlobalGatingPath(exp_root) == exp_root \o <<"/">> \o ExpName \o <<"_global.gatingml">>

FcsGatingPath(exp_root, name) == exp_root \o <<"/">> \o RemoveSuffixFcs(name) \o <<".gatingml">>

StatisticsPath(exp_root, name) ==
    exp_root \o <<"/">> \o RemoveSuffixFcs(name) \o <<"_statistics.tsv">>

\* f"CellEngine/{f_path}"
S3Key(path) == <<"CellEngine/">> \o path

CheckS3Exists(s, path) == CheckExists(s[OwnBucket], S3Key(path))

\* an entry of the log: a request to the API, a local write, or an upload
Entry(act, kind, path) == [act |-> act, kind |-> kind, path |-> path]

\* how a step of the export ends: the store, the local files, the path it
\* returns, the log, and the exception it raises ("none": it returns)
Step(s, loc, path, lg, err) ==
    [s3 |-> s, local |-> loc, f_path |-> path, log |-> lg, err |-> err]

\* what the remote API does with a download request
ApiOutcomes == {"ok", "raises"}

\* a _download_file that does not ask whether the file is mirrored already
DownloadFile_NoExistsCheck(s, loc, lg, exp_root, name, api) ==
    LET fcs_file_path == FcsFilePath(exp_root, name)
        asked == Append(lg, Entry("request", "fcs", fcs_file_path))
    IN  IF api = "raises"
        THEN Step(s, loc, None, asked, "APIError")
        ELSE Step(s, loc \cup {fcs_file_path}, fcs_file_path,
                  Append(asked, Entry("write", "fcs", fcs_file_path)), "none")

\* _download_file
DownloadFile(s, loc, lg, exp_root, name, api) ==
    LET fcs_file_path == FcsFilePath(exp_root, name)
        asked == Append(lg, Entry("request", "fcs", fcs_file_path))
    IN  IF CheckS3Exists(s, fcs_file_path)
        THEN Step(s, loc, None, lg, "none")
        ELSE IF api = "raises"
        THEN Step(s, loc, None, asked, "APIError")
        ELSE Step(s, loc \cup {fcs_file_path}, fcs_file_path,
                  Append(asked, Entry("write", "fcs", fcs_file_path)), "none")

\* _download_global_gating_ml: no existence check
DownloadGlobalGatingMl(s, loc, lg, exp_root, api) ==
    LET gatingml_file_path == GlobalGatingPath(exp_root)
        asked == Append(lg, Entry("request", "global", gatingml_file_path))
    IN  IF api = "raises"
        THEN Step(s, loc, None, asked, "APIError")
        ELSE Step(s, loc \cup {gatingml_file_path}, gatingml_file_path,
                  Append(asked, Entry("write", "global", gatingml_file_path)), "none")

\* _download_fcs_gating_ml
DownloadFcsGatingMl(s, loc, lg, exp_root, name, api) ==
    LET gatingml_file_path == FcsGatingPath(exp_root, name)
        asked == Append(lg, Entry("request", "gating", gatingml_file_path))
    IN  IF CheckS3Exists(s, gatingml_file_path)
        THEN Step(s, loc, None, lg, "none")
        ELSE IF api = "raises"
        THEN Step(s, loc, None, asked, "APIError")
        ELSE Step(s, loc \cup {gatingml_file_path}, gatingml_file_path,
                  Append(asked, Entry("write", "gating", gatingml_file_path)), "none")

\* the get_statistics call of _download_statistics
StatisticsCall ==
    [statistics |-> PyList(<<"eventcount">>), q |-> "None",
     format |-> "TSV (with header)", layout |-> "medium"]

\* a _download_statistics that does not ask whether the file is mirrored already
DownloadStatistics_NoExistsCheck(s, loc, lg, exp_root, name, net) ==
    LET statistics_file_path == StatisticsPath(exp_root, name)
        r == GetStatistics(StatisticsCall, net)
        asked == IF r.posted = << >> THEN lg
                 ELSE Append(lg, Entry("request", "statistics", statistics_file_path))
    IN  IF r.out.err # "none"
        THEN Step(s, loc, None, asked, r.out.err)
        ELSE Step(s, loc \cup {statistics_file_path}, statistics_file_path,
                  Append(asked, Entry("write", "statistics", statistics_file_path)),
                  "none")

\* _download_statistics
DownloadStatistics(s, loc, lg, exp_root, name, net) ==
    LET statistics_file_path == StatisticsPath(exp_root, name)
        r == GetStatistics(StatisticsCall, net)
        asked == IF r.posted = << >> THEN lg
                 ELSE Append(lg, Entry("request", "statistics", statistics_file_path))
    IN  IF CheckS3Exists(s, statistics_file_path)
        THEN Step(s, loc, None, lg, "none")
        ELSE IF r.out.err # "none"
        THEN Step(s, loc, None, asked, r.out.err)
        ELSE Step(s, loc \cup {statistics_file_path}, statistics_file_path,
                  Append(asked, Entry("write", "statistics", statistics_file_path)),
                  "none")

\* an _upload_to_s3 that does not look at remove_local
UploadToS3_KeepsLocal(s, dry, loc, lg, path, kind, remove_local, ok, c) ==
    IF path = None
    THEN Step(s, loc, path, lg, "none")
    ELSE LET r == UploadFile(s, dry, S3Key(path), ok, c)
         IN  IF r.err # "none"
             THEN Step(r.s3, loc, path, lg, r.err)
             ELSE Step(r.s3, loc, path, Append(lg, Entry("upload", kind, path)), "none")

\* _upload_to_s3
UploadToS3(s, dry, loc, lg, path, kind, remove_local, ok, c) ==
    IF path = None
    THEN Step(s, loc, path, lg, "none")
    ELSE LET r == UploadFile(s, dry, S3Key(path), ok, c)
         IN  IF r.err # "none"
             THEN Step(r.s3, loc, path, lg, r.err)
             ELSE Step(r.s3, IF remove_local THEN loc \ {path} ELSE loc, path,
                       Append(lg, Entry("upload", kind, path)), "none")

\* the call of _download_experiment_files that follows the call at p, where
\* the loop is at raw-data file i of n
NextPc(p, i, n) ==
    CASE p = "download_global_gating_ml" -> "upload_global_gating_ml"
      [] p = "upload_global_gating_ml" -> IF n = 0 THEN "done" ELSE "download_file"
      [] p = "download_file" -> "upload_fcs"
      [] p = "upload_fcs" -> "download_fcs_gating_ml"
      [] p = "download_fcs_gating_ml" -> "upload_fcs_gating_ml"
      [] p = "upload_fcs_gating_ml" -> "download_statistics"
      [] p = "download_statistics" -> "upload_statistics"
      [] p = "upload_statistics" -> IF i < n THEN "download_file" ELSE "done"

UploadPcs ==
    {"upload_global_gating_ml", "upload_fcs", "upload_fcs_gating_ml", "upload_statistics"}

\* the remove_local argument of the _upload_to_s3 call at p
RemoveLocal(p) == p # "upload_global_gating_ml"

\* the artifact the _upload_to_s3 call at p is given
KindAt(p) ==
    CASE p = "upload_global_gating_ml" -> "global"
      [] p = "upload_fcs" -> "fcs"
      [] p = "upload_fcs_gating_ml" -> "gating"
      [] p = "upload_statistics" -> "statistics"

\* the step ends as r: an exception ends the run, otherwise the next call is up
Took(r) ==
    LET to == IF r.err = "none" THEN NextPc(pc, idx, Len(files)) ELSE "failed"
    IN  /\ s3' = r.s3
        /\ local' = r.local
        /\ f_path' = r.f_path
        /\ log' = r.log
        /\ pc' = to
        /\ idx' = IF pc \in UploadPcs /\ to = "download_file" THEN idx + 1 ELSE idx
        /\ UNCHANGED <<files, store0, run, prev_done, queue, dry_run, call, svars>>

\* _download_experiment_files is called: the first run, or a run over the
\* same experiment after the run before ended
start_run ==
    /\ pc \in {"idle", "done", "failed"}
    /\ run < MaxRuns
    /\ run' = run + 1
    /\ prev_done' = (pc = "done")
    /\ pc' = "download_global_gating_ml"
    /\ idx' = 0
    /\ f_path' = None
    /\ log' = << >>
    /\ UNCHANGED <<files, store0, local, gvars, svars>>

download_global_gating_ml ==
    /\ pc = "download_global_gating_ml"
    /\ \E api \in ApiOutcomes : Took(DownloadGlobalGatingMl(s3, local, log, ExpRoot, api))

upload_to_s3 ==
    /\ pc \in UploadPcs
    /\ \E ok \in BOOLEAN, c \in Contents :
          Took(UploadToS3(s3, dry_run, local, log, f_path, KindAt(pc), RemoveLocal(pc), ok, c))

download_file ==
    /\ pc = "download_file"
    /\ \E api \in ApiOutcomes : Took(DownloadFile(s3, local, log, ExpRoot, files[idx], api))

download_fcs_gating_ml ==
    /\ pc = "download_fcs_gating_ml"
    /\ \E api \in ApiOutcomes :
          Took(DownloadFcsGatingMl(s3, local, log, ExpRoot, files[idx], api))

download_statistics ==
    /\ pc = "download_statistics"
    /\ \E net \in NetOutcomes :
          Took(DownloadStatistics(s3, local, log, ExpRoot, files[idx], net))

\* the paths of the artifacts an export of the experiment mirrors
ArtifactPaths ==
    {GlobalGatingPath(ExpRoot)}
    \cup {FcsFilePath(ExpRoot, n) : n \in FcsNames}
    \cup {FcsGatingPath(ExpRoot, n) : n \in FcsNames}
    \cup {StatisticsPath(ExpRoot, n) : n \in FcsNames}

\* the own bucket before the first run: what earlier exports mirrored
StartStores ==
    {m \in UNION {[D -> Contents] : D \in SUBSET {S3Key(p) : p \in ArtifactPaths}} :
        Cardinality(DOMAIN m) <= MaxObjs}

\* exp.fcs_files
FileLists == UNION {[1..n -> FcsNames] : n \in 0..MaxFiles}

InitExport ==
    /\ \E m \in StartStores :
          /\ s3 = [b \in Buckets |-> IF b = OwnBucket THEN m ELSE EmptyBucket]
          /\ store0 = m
    /\ queue = << >>
    /\ dry_run = FALSE
    /\ call = Returned("__init__", NoRet)
    /\ NoStats
    /\ files \in FileLists
    /\ local = {}
    /\ pc = "idle"
    /\ idx = 0
    /\ f_path = None
    /\ run = 0
    /\ prev_done = FALSE
    /\ log = << >>

NextExport ==
    \/ start_run
    \/ download_global_gating_ml
    \/ upload_to_s3
    \/ download_file
    \/ download_fcs_gating_ml
    \/ download_statistics

SpecExport == InitExport /\ [][NextExport]_vars

(***************************************************************************)
(* The claims about the export.                                            *)
(***************************************************************************)
\* the entries of the log
Logged == {log[i] : i \in 1..Len(log)}

\* the kinds of artifact this run asked the API for, wrote or uploaded
KindsLogged == {e.kind : e \in Logged}

\* C3, as stated: in a run of the export that follows a completed run over the
\* same experiment and the same store, no raw-data file and no gating
\* definition (the per-file ones and the experiment's global one) is requested
\* from the API, written or uploaded.
C3_RerunTransfersNoFileNoGating ==
    prev_done => KindsLogged \cap {"fcs", "gating", "global"} = {}

\* C3, amended: in a run that follows a completed run, the existence check
\* finds every raw-data file and every per-file gating definition in the
\* store, and none of them is requested, written or uploaded; the global
\* gating definition, which has no existence check, is requested again, and
\* once written it is the next upload.
C3_RerunSkipsFilesAndPerFileGating ==
    prev_done =>
       /\ \A i \in 1..Len(files) :
             /\ CheckS3Exists(s3, FcsFilePath(ExpRoot, files[i]))
             /\ CheckS3Exists(s3, FcsGatingPath(ExpRoot, files[i]))
       /\ KindsLogged \cap {"fcs", "gating"} = {}
       /\ pc # "download_global_gating_ml" =>
             Entry("request", "global", GlobalGatingPath(ExpRoot)) \in Logged
       /\ pc \notin {"download_global_gating_ml", "upload_global_gating_ml", "failed"} =>
             Entry("upload", "global", GlobalGatingPath(ExpRoot)) \in Logged

\* a second run ran to its end after a first run that downloaded and mirrored
\* the raw-data files and the gating definitions
C3_Witness ==
    /\ prev_done
    /\ pc = "done"
    /\ files # << >>
    /\ store0 = EmptyBucket
    /\ Entry("upload", "global", GlobalGatingPath(ExpRoot)) \in Logged

\* C4, as stated: a run that ran to its end has issued the statistics request
\* and uploaded the statistics file for every raw-data file, whatever the store
\* held.
C4_StatisticsAlwaysRecomputed ==
    pc = "done" =>
       \A i \in 1..Len(files) :
          /\ Entry("request", "statistics", StatisticsPath(ExpRoot, files[i])) \in Logged
          /\ Entry("upload", "statistics", StatisticsPath(ExpRoot, files[i])) \in Logged

\* C4, amended: the statistics request is issued exactly when the existence
\* check finds no object under the statistics file's key.  When it finds one,
\* _download_statistics returns None without a request or a write and the
\* upload that follows does nothing; when it finds none, the request is issued,
\* and if it succeeds the file is written and the upload that follows, unless
\* it fails, puts it in the store under CellEngine/<path>.
C4_StatisticsOnlyWhenNotMirrored ==
    [][ LET path == StatisticsPath(ExpRoot, files[idx])
        IN  /\ pc = "download_statistics" =>
                IF CheckS3Exists(s3, path)
                THEN /\ log' = log
                     /\ local' = local
                     /\ f_path' = None
                     /\ pc' = "upload_statistics"
                ELSE /\ Len(log') > Len(log)
                     /\ log'[Len(log) + 1] = Entry("request", "statistics", path)
                     /\ pc' = "upload_statistics" =>
                           /\ f_path' = path
                           /\ log' = log \o <<Entry("request", "statistics", path),
                                              Entry("write", "statistics", path)>>
            /\ pc = "upload_statistics" =>
                IF f_path = None
                THEN /\ s3' = s3
                     /\ log' = log
                     /\ pc' # "failed"
                ELSE pc' # "failed" =>
                        /\ S3Key(path) \in DOMAIN s3'[OwnBucket]
                        /\ log' = Append(log, Entry("upload", "statistics", path))
      ]_vars

\* a run ran to its end over an experiment with raw-data files without any
\* statistics request or upload: every statistics file was in the store
C4_Witness ==
    /\ pc = "done"
    /\ files # << >>
    /\ "statistics" \notin KindsLogged
    /\ "fcs" \in KindsLogged

\* the run is the first one and the store was empty before it
FirstRunOnEmptyStore == run = 1 /\ store0 = EmptyBucket

\* every file written is the next thing uploaded: the entry after its write is
\* its upload, which put it in the store under CellEngine/<path>; the last
\* write of the log is the file the upload call in turn is given, unless that
\* upload failed
UploadedRightAfterWrite ==
    \A i \in 1..Len(log) :
       log[i].act = "write" =>
          IF i < Len(log)
          THEN /\ log[i + 1] = Entry("upload", log[i].kind, log[i].path)
               /\ S3Key(log[i].path) \in DOMAIN s3[OwnBucket]
          ELSE \/ pc \in UploadPcs /\ KindAt(pc) = log[i].kind /\ f_path = log[i].path
               \/ pc = "failed"

\* the paths this run wrote artifacts of the given kinds to
Written(kinds) == {e.path : e \in {x \in Logged : x.act = "write" /\ x.kind \in kinds}}

\* C10, as stated: in a first run against an empty store every artifact
\* written locally (raw file, per-file gating definition, statistics file,
\* global gating definition) is uploaded under CellEngine/<path> right after it
\* is written, and once the run has ended none of the local copies remains.
C10_EveryLocalCopyRemoved ==
    FirstRunOnEmptyStore =>
       /\ UploadedRightAfterWrite
       /\ pc = "done" =>
             \A path \in Written({"fcs", "gating", "statistics", "global"}) :
                /\ S3Key(path) \in DOMAIN s3[OwnBucket]
                /\ path \notin local

\* C10, amended: in a first run against an empty store every artifact written
\* locally is uploaded under CellEngine/<path> right after it is written; once
\* the run has ended without error the local copies of the raw files, of the
\* per-file gating definitions and of the statistics files are removed, and
\* the local copy of the global gating definition, uploaded with
\* remove_local=False, remains.
C10_LocalCopiesRemovedButGlobal ==
    FirstRunOnEmptyStore =>
       /\ UploadedRightAfterWrite
       /\ pc = "done" =>
             /\ \A path \in Written({"fcs", "gating", "statistics", "global"}) :
                   S3Key(path) \in DOMAIN s3[OwnBucket]
             /\ \A path \in Written({"fcs", "gating", "statistics"}) : path \notin local
             /\ Written({"global"}) = {GlobalGatingPath(ExpRoot)}
             /\ local = {GlobalGatingPath(ExpRoot)}

\* a first run against an empty store ran to its end, having written an
\* artifact of each of the four kinds
C10_Witness ==
    /\ FirstRunOnEmptyStore
    /\ pc = "done"
    /\ {e.kind : e \in {x \in Logged : x.act = "write"}}
          = {"fcs", "gating", "statistics", "global"}

(***************************************************************************)
(* More claims about the gateway.                                          *)
(***************************************************************************)
\* C11: move_file whose source and destination are the same bucket and the
\* same key returns without raising and leaves the store as it was, with
\* dry_run and without; it makes no call on the store: whatever the store
\* would answer to a copy or a delete, the result is the same.
C11_MoveOntoItselfIsNoOp ==
    [][ call'.op = "move_file" =>
          \A k \in Keys :
             /\ move_file(k, k, OwnBucket) =>
                   /\ s3' = s3
                   /\ call' = Returned("move_file", NoRet)
             /\ \A outcome \in CopyOutcomes(s3, k) :
                   MoveFile(s3, dry_run, k, k, OwnBucket, outcome) = Result(s3, "none")
      ]_vars

\* move_file returned on a gateway that is not in dry-run and the store is
\* empty: a move between two different paths that returns leaves an object at
\* its destination, so this was a move of a key onto itself
C11_Witness ==
    /\ ~dry_run
    /\ call = Returned("move_file", NoRet)
    /\ \A b \in Buckets : s3[b] = EmptyBucket

\* key k starts with key p
StartsWith(k, p) == Len(p) <= Len(k) /\ \A i \in 1..Len(p) : k[i] = p[i]

\* C12: check_exists(key) returns TRUE when at least one object of the bucket
\* has a key that starts with key, however many do, and FALSE when none has;
\* it does not raise and leaves the store as it was.
C12_ExistsIffSomeKeyStartsWith ==
    [][ call'.op = "check_exists" =>
          /\ s3' = s3
          /\ call'.err = "none"
          /\ call'.ret[2] = (\E k \in DOMAIN s3[OwnBucket] : StartsWith(k, call'.ret[1]))
      ]_vars

\* check_exists returned TRUE for a key that two objects start with, neither
\* of them at the key itself
C12_Witness ==
    /\ call.op = "check_exists"
    /\ call.ret[2] = TRUE
    /\ call.ret[1] \notin DOMAIN s3[OwnBucket]
    /\ Cardinality({k \in DOMAIN s3[OwnBucket] : StartsWith(k, call.ret[1])}) = 2

(***************************************************************************)
(* More claims about the export.                                           *)
(***************************************************************************)
\* the keys the mirror of raw-data file name is made of
MirrorKeys(name) ==
    {S3Key(FcsFilePath(ExpRoot, name)),
     S3Key(FcsGatingPath(ExpRoot, name)),
     S3Key(StatisticsPath(ExpRoot, name))}

\* C13: once a run of the export has ended without error, whatever the store
\* held before and whatever the raw-data files are called, the store holds for
\* every raw-data file an object at exactly the key of the file, of its gating
\* definition and of its statistics file.
C13_MirrorComplete ==
    pc = "done" =>
       \A i \in 1..Len(files) : MirrorKeys(files[i]) \subseteq DOMAIN s3[OwnBucket]

=============================================================================
